---- MODULE Spec2Model ----
(***************************************************************************)
(* Model of src/static/app.js: the VizioTVController (connection flag,     *)
(* status indicator, device status snapshot, commands and their            *)
(* asynchronous completions) and the service worker's cache handlers.      *)
(***************************************************************************)
EXTENDS Integers, Sequences, FiniteSets, TLC

\* ------------------------------------------------------------------ bounds
\* Total number of requests the controller issues in one behaviour.
MaxRequests == 5
\* Number of fetch events the service worker handles at the same time.
MaxLookups == 1

\* --------------------------------------------------------------- constants
CommandKinds == {"power", "volume", "mute", "input", "app", "remote"}
RequestKinds == {"probe", "status", "apps"} \cup CommandKinds

\* JavaScript values a resolved makeApiRequest can hand back.
Null == [null |-> TRUE]
Falsy == [falsy |-> TRUE]

\* What the transport can answer to one request:
\*   neterr  - fetch() rejects (no response, timeout)
\*   non2xx  - a response whose ok flag is false
\*   nonjson - a 2xx response whose body response.json() cannot parse
\*   falsy   - a 2xx response whose JSON body is null, false, 0 or ""
\*   json    - a 2xx response whose JSON body is a truthy value
ResponseKinds == {"neterr", "non2xx", "nonjson", "falsy", "json"}

\* Bodies of GET /tv/info: a volume of 0, another volume, and an object the
\* volume is missing from.
TvInfos ==
  {[volume |-> 0, muted |-> FALSE], [volume |-> 45, muted |-> TRUE],
   [muted |-> FALSE]}

\* Bodies of GET /tv/apps: with an apps array (possibly empty) or without.
AppsBodies == {[apps |-> <<"Netflix">>], [apps |-> <<>>], [detail |-> "none"]}

Bodies(kind) ==
  CASE kind = "status" -> TvInfos
    [] kind = "apps" -> AppsBodies
    [] kind = "probe" -> {[status |-> "healthy"]}
    [] OTHER -> {[success |-> TRUE]}

Responses(kind) ==
  [kind : ResponseKinds \ {"json"}] \cup [kind : {"json"}, body : Bodies(kind)]

BaseUrls == {"", "http://tv"}

VARIABLES
  apiUrl,        \* this.apiUrl
  isConnected,   \* this.isConnected
  tvInfo,        \* this.tvInfo
  statusText,    \* #statusText.textContent
  statusDot,     \* #statusDot has class 'connected'
  loading,       \* #loadingOverlay is shown
  toast,         \* message of the toast shown last
  volumeStatus,  \* #volumeStatus.textContent
  volumeValue,   \* #volumeValue.textContent
  muteStatus,    \* #muteStatus.textContent
  appsGrid,      \* app names of the buttons in #appsGrid
  inflight,      \* requests issued by fetch() and not yet settled
  nextId,        \* number of the next request
  cacheStore,    \* service worker: the caches, in creation order
  swPhase,       \* service worker: how far install and activate have got
  pendingDeletes,\* service worker: caches.delete calls activate still awaits
  lookups,       \* service worker: fetch events not yet responded to
  delivered      \* service worker: what the last respondWith settled to

ctlVars ==
  <<apiUrl, isConnected, tvInfo, statusText, statusDot, loading, toast,
    volumeStatus, volumeValue, muteStatus, appsGrid, inflight, nextId>>

swVars == <<cacheStore, swPhase, pendingDeletes, lookups, delivered>>

vars == <<ctlVars, swVars>>

Endpoint(kind) ==
  CASE kind = "probe" -> "/health"
    [] kind = "status" -> "/tv/info"
    [] kind = "apps" -> "/tv/apps"
    [] kind = "power" -> "/tv/power"
    [] kind = "volume" -> "/tv/volume"
    [] kind = "mute" -> "/tv/mute"
    [] kind = "input" -> "/tv/input"
    [] kind = "app" -> "/tv/app"
    [] kind = "remote" -> "/tv/remote"

Method(kind) == IF kind \in CommandKinds THEN "POST" ELSE "GET"

\* A pending fetch(): its number in issue order and what it is for. Its method
\* is Method(kind) and its URL is apiUrl followed by Endpoint(kind).
Request(id, kind) ==
  [id |-> id, kind |-> kind]

\* makeApiRequest: the value the awaited call resolves to.
MakeApiRequestResult(resp) ==
  CASE resp.kind = "json" -> resp.body
    [] resp.kind = "falsy" -> Falsy
    [] OTHER -> Null

\* makeApiRequest's catch branch shows 'Connection failed'.
MakeApiRequestThrows(resp) == resp.kind \in {"neterr", "non2xx", "nonjson"}

Truthy(v) == v \notin {Null, Falsy}

\* The controller right after its constructor has run.
CtlInit(urls) ==
  /\ apiUrl \in urls
  /\ isConnected = FALSE
  /\ tvInfo = Null
  /\ statusText = "Connecting..."
  /\ statusDot = FALSE
  /\ loading = TRUE
  /\ toast = "none"
  /\ volumeStatus = "--"
  /\ volumeValue = "50%"
  /\ muteStatus = "--"
  /\ appsGrid = <<>>
  /\ inflight = {Request(1, "probe")}
  /\ nextId = 2

\* ---------------------------------------------------------- cache store

CACHE_NAME == "vizio-tv-controller-v1"

\* The name of the cache a previous generation of the worker left behind.
OLD_CACHE_NAME == "vizio-tv-controller-v0"

\* A request as the Cache API sees it: the method and the URL's pathname,
\* the pathname as its segments ("/tv/info" is <<"tv", "info">>, "/" is <<>>).
Get(path) == [method |-> "GET", path |-> path]
Post(path) == [method |-> "POST", path |-> path]

urlsToCache ==
  {Get(<<>>), Get(<<"index.html">>), Get(<<"styles.css">>),
   Get(<<"app.js">>), Get(<<"manifest.json">>)}

\* The requests that issue a command.
CommandRequests ==
  {Post(<<"tv", "power">>), Post(<<"tv", "volume">>), Post(<<"tv", "mute">>),
   Post(<<"tv", "input">>), Post(<<"tv", "app">>), Post(<<"tv", "remote">>)}

\* The requests fetch events carry: precached and other static assets, the
\* control-plane reads and the commands.
FetchRequests ==
  {Get(<<"index.html">>), Get(<<"icon-192.png">>), Get(<<"tv">>),
   Get(<<"health">>), Get(<<"tv", "info">>), Get(<<"tv", "apps">>)}
    \cup CommandRequests

\* What the earlier generation may have stored under its own cache name. The
\* Cache API stores GET requests only.
OldKeys ==
  {Get(<<"index.html">>), Get(<<"icon-192.png">>), Get(<<"tv", "info">>)}

\* url.pathname.startsWith('/tv/') || url.pathname === '/health'
IsApi(path) == (Len(path) >= 2 /\ path[1] = "tv") \/ path = <<"health">>

NoMatch == [from |-> "nothing"]

CacheNames(store) == {store[i].name : i \in 1..Len(store)}

\* caches.match(request): the entry of the first cache, in creation order,
\* that holds the request; only GET requests match.
RECURSIVE CachesMatch(_, _)
CachesMatch(store, req) ==
  IF store = <<>> \/ req.method # "GET"
    THEN NoMatch
    ELSE IF req \in DOMAIN Head(store).entries
           THEN [from |-> "cache", payload |-> Head(store).entries[req]]
           ELSE CachesMatch(Tail(store), req)

\* caches.open(name): the store with the cache created if it was missing.
CachesOpen(store, name) ==
  IF name \in CacheNames(store)
    THEN store
    ELSE Append(store, [name |-> name, entries |-> <<>>])

\* cache.addAll(urls) resolved: every URL stored with the network's payload.
CacheAddAll(store, name, urls) ==
  [i \in 1..Len(store) |->
     IF store[i].name = name
       THEN [name |-> name,
             entries |-> [k \in DOMAIN store[i].entries \cup urls |->
                            IF k \in urls THEN "new" ELSE store[i].entries[k]]]
       ELSE store[i]]

\* caches.delete(name)
CachesDelete(store, name) == SelectSeq(store, LAMBDA c : c.name # name)

\* Faulty variant of CacheAfterFetch: a response from the network is put in the cache.
CacheAfterFetchStores(store, req) ==
  CacheAddAll(CachesOpen(store, CACHE_NAME), CACHE_NAME, {req})

\* The fetch listener writes nothing to the caches.
CacheAfterFetch(store, req) == store

\* Faulty variant of ActivateTargets: every cache is deleted.
ActivateTargetsAll(names) == names

\* The activate listener: the caches it deletes among those caches.keys() gave.
ActivateTargets(names) == {n \in names : n # CACHE_NAME}

NoResponse == [from |-> "nothing"]

\* The settled respondWith of a lookup: where the response came from, its
\* payload, and how many network fetches the lookup made.
Response(lookup, from, payload) ==
  [req |-> lookup.req, from |-> from, payload |-> payload, net |-> lookup.net]

\* Faulty variant of StaticHit: the cached entry is returned and refreshed from the
\* network behind the caller's back.
StaticHitRevalidates(lookup, entry) ==
  [req |-> lookup.req, from |-> "cache", payload |-> entry.payload,
   net |-> lookup.net + 1]

\* The static branch when caches.match found an entry.
StaticHit(lookup, entry) == Response(lookup, "cache", entry.payload)

\* Faulty variant of ApiFallback: a miss is answered with an empty success.
ApiFallbackEmptySuccess(lookup, entry) ==
  IF entry = NoMatch
    THEN Response(lookup, "network", "new")
    ELSE Response(lookup, "cache", entry.payload)

\* The API branch's catch: caches.match(request), undefined on a miss, which
\* respondWith turns into a network error.
ApiFallback(lookup, entry) ==
  IF entry = NoMatch
    THEN Response(lookup, "error", "none")
    ELSE Response(lookup, "cache", entry.payload)

\* What fetch(event.request) can settle to: a 2xx response, a response with
\* another status, or a rejection.
NetOutcomes == {"ok", "httperr", "reject"}

\* Cache storage before this worker has run: nothing, or the old cache.
OldStores ==
  {<<>>} \cup
  {<<[name |-> OLD_CACHE_NAME, entries |-> [k \in keys |-> "old"]]>> :
     keys \in SUBSET OldKeys}

SWInit(stores) ==
  /\ cacheStore \in stores
  /\ swPhase = "parsed"
  /\ pendingDeletes = {}
  /\ lookups = {}
  /\ delivered = NoResponse

Init == CtlInit(BaseUrls) /\ SWInit({<<>>})

\* ------------------------------------------------------------ controller

\* Commands that show the loading overlay while their request is pending.
LoadingKinds == {"power", "input", "app"}

\* Commands whose success branch calls refreshStatus().
RepollKinds == {"power", "volume", "mute", "input"}

\* Faulty variant of CommandAccepted: the test of the flag is inverted.
CommandAcceptedNegated(connected) == ~connected

\* The guard every command starts with: true when the command goes on.
CommandAccepted(connected) == connected

\* refreshStatus(): the requests it issues, numbered from id, given the flag.
RefreshStatusIssues(connected, id) ==
  IF ~connected THEN {} ELSE {Request(id, "status")}

\* loadApps(): the request it issues.
LoadAppsIssues(id) == {Request(id, "apps")}

\* Faulty variant of ProbeSuccessIssues: the apps list is not fetched with the poll.
ProbeSuccessIssuesNoApps(connected, id) == RefreshStatusIssues(connected, id)

\* What a successful probe starts: refreshStatus() then loadApps().
ProbeSuccessIssues(connected, id) ==
  LET polls == RefreshStatusIssues(connected, id)
  IN  polls \cup LoadAppsIssues(id + Cardinality(polls))

\* Faulty variant of CommandSuccessIssues: every kind of command re-polls.
CommandSuccessIssuesAllKinds(kind, connected, id) ==
  RefreshStatusIssues(connected, id)

\* What a successful command of this kind starts.
CommandSuccessIssues(kind, connected, id) ==
  IF kind \in RepollKinds THEN RefreshStatusIssues(connected, id) ELSE {}

\* updateStatusDisplay: `${tvInfo.volume || 0}%`
VolumeStatusText(info) ==
  IF "volume" \in DOMAIN info /\ info.volume # 0
    THEN ToString(info.volume) \o "%"
    ELSE "0%"

\* updateStatusDisplay: the slider label changes only when volume is defined.
VolumeValueText(info, old) ==
  IF "volume" \in DOMAIN info THEN ToString(info.volume) \o "%" ELSE old

\* updateStatusDisplay: tvInfo.muted ? 'Yes' : 'No'
MuteStatusText(info) == IF info.muted THEN "Yes" ELSE "No"

\* Faulty variant of NextTvInfo: the fields of the response are merged into
\* the snapshot held.
NextTvInfoMerged(old, info) ==
  [k \in DOMAIN old \cup DOMAIN info |->
     IF k \in DOMAIN info THEN info[k] ELSE old[k]]

\* refreshStatus: this.tvInfo = tvInfo
NextTvInfo(old, info) == info

\* Faulty variant of AppliesStatus: a response is dropped while a poll issued
\* later is still in flight.
AppliesStatusIfNewest(r, pending, info) ==
  /\ Truthy(info)
  /\ \A q \in pending : q.kind = "status" => q.id <= r.id

\* refreshStatus: if (tvInfo), whichever poll the response answers and
\* whatever polls are still in flight.
AppliesStatus(r, pending, info) == Truthy(info)

\* Faulty variant of FlagAfterRequest: a request that throws clears the flag.
FlagAfterRequestClears(resp, old) ==
  IF MakeApiRequestThrows(resp) THEN FALSE ELSE old

\* makeApiRequest and its callers other than testConnection: what they leave
\* in this.isConnected, whatever the response was.
FlagAfterRequest(resp, old) == old

\* The toast makeApiRequest leaves behind, if any.
ToastAfterRequest(resp, old) ==
  IF MakeApiRequestThrows(resp) THEN "Connection failed" ELSE old

Issue(reqs) ==
  /\ nextId + Cardinality(reqs) <= MaxRequests + 1
  /\ inflight' = inflight \cup reqs
  /\ nextId' = nextId + Cardinality(reqs)

Settle(r, reqs) ==
  /\ nextId + Cardinality(reqs) <= MaxRequests + 1
  /\ inflight' = (inflight \ {r}) \cup reqs
  /\ nextId' = nextId + Cardinality(reqs)

\* updateConnectionStatus(text, connected)
UpdateConnectionStatus(text, connected) ==
  /\ statusText' = text
  /\ statusDot' = connected

\* testConnection(), up to its await.
TestConnection ==
  /\ loading' = TRUE
  /\ UpdateConnectionStatus("Connecting...", FALSE)
  /\ Issue({Request(nextId, "probe")})
  /\ UNCHANGED <<swVars, apiUrl, isConnected, tvInfo, toast, volumeStatus,
                 volumeValue, muteStatus, appsGrid>>

\* testConnection(), from the await of makeApiRequest('/health') on.
ProbeDone(r, resp) ==
  /\ r \in inflight /\ r.kind = "probe"
  /\ LET response == MakeApiRequestResult(resp)
     IN  IF Truthy(response)
           THEN /\ isConnected' = TRUE
                /\ UpdateConnectionStatus("Connected", TRUE)
                /\ toast' = "Connected to TV"
                /\ Settle(r, ProbeSuccessIssues(TRUE, nextId))
           ELSE /\ isConnected' = FALSE
                /\ UpdateConnectionStatus("Disconnected", FALSE)
                /\ toast' = "Failed to connect"
                /\ Settle(r, {})
  /\ loading' = FALSE
  /\ UNCHANGED <<swVars, apiUrl, tvInfo, volumeStatus, volumeValue,
                 muteStatus, appsGrid>>

\* setPower, setVolume, setMute, setInput, launchApp, sendRemoteKey, up to
\* the await.
Command(kind) ==
  /\ IF CommandAccepted(isConnected)
       THEN /\ Issue({Request(nextId, kind)})
            /\ loading' = IF kind \in LoadingKinds THEN TRUE ELSE loading
            /\ UNCHANGED toast
       ELSE /\ toast' = "Not connected to TV"
            /\ UNCHANGED <<inflight, nextId, loading>>
  /\ UNCHANGED <<swVars, apiUrl, isConnected, tvInfo, statusText, statusDot,
                 volumeStatus, volumeValue, muteStatus, appsGrid>>

\* The same six methods, from the await of makeApiRequest on.
CommandDone(r, resp) ==
  /\ r \in inflight /\ r.kind \in CommandKinds
  /\ LET response == MakeApiRequestResult(resp)
     IN  IF Truthy(response)
           THEN /\ toast' = "Done: " \o r.kind
                /\ Settle(r, CommandSuccessIssues(r.kind, isConnected, nextId))
           ELSE /\ toast' = ToastAfterRequest(resp, toast)
                /\ Settle(r, {})
  /\ loading' = IF r.kind \in LoadingKinds THEN FALSE ELSE loading
  /\ isConnected' = FlagAfterRequest(resp, isConnected)
  /\ UNCHANGED <<swVars, apiUrl, tvInfo, statusText, statusDot,
                 volumeStatus, volumeValue, muteStatus, appsGrid>>

\* The global refreshStatus(): refreshStatus() up to its await.
RefreshStatus ==
  /\ Issue(RefreshStatusIssues(isConnected, nextId))
  /\ UNCHANGED <<swVars, apiUrl, isConnected, tvInfo, statusText, statusDot,
                 loading, toast, volumeStatus, volumeValue, muteStatus,
                 appsGrid>>

\* refreshAllData()
RefreshAllData ==
  /\ Issue(RefreshStatusIssues(isConnected, nextId))
  /\ toast' = "Data refreshed"
  /\ UNCHANGED <<swVars, apiUrl, isConnected, tvInfo, statusText, statusDot,
                 loading, volumeStatus, volumeValue, muteStatus, appsGrid>>

\* The visibilitychange listener; hidden is document.hidden.
VisibilityChange(hidden) ==
  /\ IF ~hidden /\ isConnected
       THEN Issue(RefreshStatusIssues(isConnected, nextId))
       ELSE UNCHANGED <<inflight, nextId>>
  /\ UNCHANGED <<swVars, apiUrl, isConnected, tvInfo, statusText, statusDot,
                 loading, toast, volumeStatus, volumeValue, muteStatus,
                 appsGrid>>

\* refreshStatus(), from the await of makeApiRequest('/tv/info') on.
StatusDone(r, resp) ==
  /\ r \in inflight /\ r.kind = "status"
  /\ LET info == MakeApiRequestResult(resp)
     IN  IF AppliesStatus(r, inflight, info)
           THEN /\ tvInfo' = NextTvInfo(tvInfo, info)
                /\ volumeStatus' = VolumeStatusText(info)
                /\ volumeValue' = VolumeValueText(info, volumeValue)
                /\ muteStatus' = MuteStatusText(info)
           ELSE UNCHANGED <<tvInfo, volumeStatus, volumeValue, muteStatus>>
  /\ toast' = ToastAfterRequest(resp, toast)
  /\ isConnected' = FlagAfterRequest(resp, isConnected)
  /\ Settle(r, {})
  /\ UNCHANGED <<swVars, apiUrl, statusText, statusDot, loading, appsGrid>>

\* loadApps(), from the await of makeApiRequest('/tv/apps') on.
AppsDone(r, resp) ==
  /\ r \in inflight /\ r.kind = "apps"
  /\ LET response == MakeApiRequestResult(resp)
     IN  appsGrid' = IF Truthy(response) /\ "apps" \in DOMAIN response
                       THEN response.apps
                       ELSE appsGrid
  /\ toast' = ToastAfterRequest(resp, toast)
  /\ isConnected' = FlagAfterRequest(resp, isConnected)
  /\ Settle(r, {})
  /\ UNCHANGED <<swVars, apiUrl, tvInfo, statusText, statusDot, loading,
                 volumeStatus, volumeValue, muteStatus>>

\* The window 'online' listener.
Online ==
  /\ toast' = "Back online"
  /\ UNCHANGED <<swVars, apiUrl, isConnected, tvInfo, statusText, statusDot,
                 loading, volumeStatus, volumeValue, muteStatus, appsGrid,
                 inflight, nextId>>

\* The window 'offline' listener.
Offline ==
  /\ toast' = "No internet connection"
  /\ UpdateConnectionStatus("Offline", FALSE)
  /\ UNCHANGED <<swVars, apiUrl, isConnected, tvInfo, loading, volumeStatus,
                 volumeValue, muteStatus, appsGrid, inflight, nextId>>

\* saveApiUrl(), with the trimmed text of the input field.
SaveApiUrl(newUrl) ==
  /\ apiUrl' = newUrl
  /\ toast' = "API URL saved"
  /\ UNCHANGED <<swVars, isConnected, tvInfo, statusText, statusDot, loading,
                 volumeStatus, volumeValue, muteStatus, appsGrid, inflight,
                 nextId>>

\* resetSettings()
ResetSettings ==
  /\ apiUrl' = ""
  /\ toast' = "Settings reset"
  /\ UNCHANGED <<swVars, isConnected, tvInfo, statusText, statusDot, loading,
                 volumeStatus, volumeValue, muteStatus, appsGrid, inflight,
                 nextId>>

Next ==
  \/ TestConnection
  \/ \E r \in inflight : \E resp \in Responses("probe") : ProbeDone(r, resp)
  \/ \E kind \in CommandKinds : Command(kind)
  \/ \E r \in inflight : \E resp \in Responses(r.kind) : CommandDone(r, resp)
  \/ RefreshStatus
  \/ RefreshAllData
  \/ \E hidden \in BOOLEAN : VisibilityChange(hidden)
  \/ \E r \in inflight : \E resp \in Responses("status") : StatusDone(r, resp)
  \/ \E r \in inflight : \E resp \in Responses("apps") : AppsDone(r, resp)
  \/ Online
  \/ Offline
  \/ \E newUrl \in BaseUrls : SaveApiUrl(newUrl)
  \/ ResetSettings

Spec == Init /\ [][Next]_vars

\* -------------------------------------------------------- service worker

\* The install listener: caches.open(CACHE_NAME) has resolved.
InstallOpen ==
  /\ swPhase = "parsed"
  /\ cacheStore' = CachesOpen(cacheStore, CACHE_NAME)
  /\ swPhase' = "installing"
  /\ UNCHANGED <<ctlVars, pendingDeletes, lookups, delivered>>

\* The install listener: cache.addAll(urlsToCache) has settled. It stores all
\* the URLs or, when one of them cannot be fetched, none, and install fails.
InstallAddAll(ok) ==
  /\ swPhase = "installing"
  /\ IF ok
       THEN /\ cacheStore' = CacheAddAll(cacheStore, CACHE_NAME, urlsToCache)
            /\ swPhase' = "installed"
       ELSE /\ UNCHANGED cacheStore
            /\ swPhase' = "redundant"
  /\ UNCHANGED <<ctlVars, pendingDeletes, lookups, delivered>>

\* setupServiceWorker on a later page load: a failed install is tried again.
Register ==
  /\ swPhase = "redundant"
  /\ swPhase' = "parsed"
  /\ UNCHANGED <<ctlVars, cacheStore, pendingDeletes, lookups, delivered>>

\* The activate listener: caches.keys() has resolved and the deletes start.
ActivateKeys ==
  /\ swPhase = "installed"
  /\ pendingDeletes' = ActivateTargets(CacheNames(cacheStore))
  /\ swPhase' = "activating"
  /\ UNCHANGED <<ctlVars, cacheStore, lookups, delivered>>

\* The activate listener: one caches.delete(cacheName) has resolved.
ActivateDelete(name) ==
  /\ swPhase = "activating"
  /\ name \in pendingDeletes
  /\ cacheStore' = CachesDelete(cacheStore, name)
  /\ pendingDeletes' = pendingDeletes \ {name}
  /\ UNCHANGED <<ctlVars, swPhase, lookups, delivered>>

\* The activate listener: Promise.all has resolved.
ActivateDone ==
  /\ swPhase = "activating"
  /\ pendingDeletes = {}
  /\ swPhase' = "activated"
  /\ UNCHANGED <<ctlVars, cacheStore, pendingDeletes, lookups, delivered>>

FreeSlot == CHOOSE s \in 1..MaxLookups : \A l \in lookups : l.slot # s

\* The fetch listener, up to the first asynchronous call: fetch() in the API
\* branch, caches.match() in the static branch.
FetchEvent(req) ==
  /\ Cardinality(lookups) < MaxLookups
  /\ lookups' = lookups \cup
       {IF IsApi(req.path)
          THEN [slot |-> FreeSlot, req |-> req, pc |-> "net", net |-> 1]
          ELSE [slot |-> FreeSlot, req |-> req, pc |-> "match", net |-> 0]}
  /\ UNCHANGED <<ctlVars, cacheStore, swPhase, pendingDeletes, delivered>>

\* The static branch: caches.match(event.request) has resolved.
MatchDone(l) ==
  /\ l \in lookups /\ l.pc = "match"
  /\ LET entry == CachesMatch(cacheStore, l.req)
     IN  IF entry # NoMatch
           THEN /\ delivered' = StaticHit(l, entry)
                /\ lookups' = lookups \ {l}
           ELSE /\ UNCHANGED delivered
                /\ lookups' = (lookups \ {l}) \cup
                     {[l EXCEPT !.pc = "net", !.net = l.net + 1]}
  /\ UNCHANGED <<ctlVars, cacheStore, swPhase, pendingDeletes>>

\* Either branch: fetch(event.request) has settled.
NetDone(l, outcome) ==
  /\ l \in lookups /\ l.pc = "net"
  /\ IF outcome = "reject"
       THEN /\ UNCHANGED cacheStore
            /\ IF IsApi(l.req.path)
                 THEN /\ lookups' = (lookups \ {l}) \cup
                           {[l EXCEPT !.pc = "fallback"]}
                      /\ UNCHANGED delivered
                 ELSE /\ lookups' = lookups \ {l}
                      /\ delivered' = Response(l, "error", "none")
       ELSE /\ cacheStore' = CacheAfterFetch(cacheStore, l.req)
            /\ lookups' = lookups \ {l}
            /\ delivered' =
                 Response(l, "network",
                          IF outcome = "ok" THEN "new" ELSE outcome)
  /\ UNCHANGED <<ctlVars, swPhase, pendingDeletes>>

\* The API branch: caches.match(event.request) in the catch has resolved.
FallbackDone(l) ==
  /\ l \in lookups /\ l.pc = "fallback"
  /\ delivered' = ApiFallback(l, CachesMatch(cacheStore, l.req))
  /\ lookups' = lookups \ {l}
  /\ UNCHANGED <<ctlVars, cacheStore, swPhase, pendingDeletes>>

SWNext ==
  \/ InstallOpen
  \/ \E ok \in BOOLEAN : InstallAddAll(ok)
  \/ Register
  \/ ActivateKeys
  \/ \E name \in pendingDeletes : ActivateDelete(name)
  \/ ActivateDone
  \/ \E req \in FetchRequests : FetchEvent(req)
  \/ \E l \in lookups : MatchDone(l)
  \/ \E l \in lookups : \E outcome \in NetOutcomes : NetDone(l, outcome)
  \/ \E l \in lookups : FallbackDone(l)

\* The service worker with whatever an earlier generation left in the caches.
SWSpecInit == CtlInit({""}) /\ SWInit(OldStores)

SWSpec == SWSpecInit /\ [][SWNext]_vars

\* ---------------------------------------------------------------- claims

\* The connection state the page shows, as updateConnectionStatus set it.
ConnectionState ==
  CASE statusText = "Connecting..." -> "Connecting"
    [] statusText = "Connected" -> "Connected"
    [] statusText = "Disconnected" -> "Disconnected"
    [] statusText = "Offline" -> "Offline"

\* The requests a step issues.
Issued == inflight' \ inflight

NothingIssued == Issued = {} /\ nextId' = nextId

\* The requests a step settles, and those of some kinds among them.
Settled == inflight \ inflight'

SettledOf(kinds) == {r \in Settled : r.kind \in kinds}

TransportFailures == {[kind |-> "neterr"], [kind |-> "non2xx"]}

\* C1: a command of any kind invoked while the connection state is not
\* Connected (Connecting, Disconnected or Offline) is rejected with the
\* 'not connected' signal and issues no request.
C1_CommandRejectedUnlessConnected ==
  [][\A kind \in CommandKinds :
       (Command(kind) /\ ConnectionState # "Connected")
         => (toast' = "Not connected to TV" /\ NothingIssued)]_vars

\* C2: when a command request or a status request fails at the transport
\* level while the connection state is Connected, the connection state
\* becomes Disconnected and the flag that gates commands is cleared.
C2_TransportFailureDisconnects ==
  [][\A r \in Settled : \A resp \in TransportFailures :
       (ConnectionState = "Connected"
          /\ (CommandDone(r, resp) \/ StatusDone(r, resp)))
         => (ConnectionState' = "Disconnected" /\ ~isConnected')]_vars

\* C3: the connection state never goes from Connected to Connecting in one
\* step.
C3_NoConnectedToConnecting ==
  [][ConnectionState = "Connected" => ConnectionState' # "Connecting"]_vars

\* C4: once the offline event has put the state to Offline while a health
\* probe is pending, the completion of that probe leaves the state Offline.
C4_OfflineSurvivesProbe ==
  [][\A r \in SettledOf({"probe"}) : \A resp \in Responses("probe") :
       (ConnectionState = "Offline" /\ ProbeDone(r, resp))
         => ConnectionState' = "Offline"]_vars

\* C5: the online event that follows an offline event puts the state to
\* Connecting and starts a fresh health probe.
C5_OnlineReconnects ==
  [][(ConnectionState = "Offline" /\ Online)
       => (ConnectionState' = "Connecting"
             /\ \E r \in Issued : r.kind = "probe")]_vars

\* C6: at startup the state is Connecting with exactly one health probe
\* pending; a probe that succeeds makes the state Connected and issues
\* exactly one status poll and one apps fetch in the same step; a probe that
\* fails makes the state Disconnected and issues nothing.
C6_Startup ==
  /\ ConnectionState = "Connecting" /\ inflight = {Request(1, "probe")}
  /\ [][\A r \in SettledOf({"probe"}) : \A resp \in Responses("probe") :
          ProbeDone(r, resp) =>
            IF resp.kind = "json"
              THEN /\ ConnectionState' = "Connected"
                   /\ Cardinality(Issued) = 2
                   /\ {q.kind : q \in Issued} = {"status", "apps"}
              ELSE /\ ConnectionState' = "Disconnected"
                   /\ NothingIssued]_vars

\* C6 witness: the startup probe has succeeded and both requests are pending.
C6_Witness ==
  /\ statusText = "Connected"
  /\ toast = "Connected to TV"
  /\ inflight = {Request(2, "status"), Request(3, "apps")}

\* The displayed volume after a status response with this body.
ShowsVolume(body) ==
  "volume" \in DOMAIN body =>
    /\ volumeStatus' = ToString(body.volume) \o "%"
    /\ volumeValue' = ToString(body.volume) \o "%"

\* C7 as stated: every successful power, volume, mute or input command issues
\* one status poll, whatever the flag is by then.
C7_RepollAfterEverySuccess ==
  [][\A r \in SettledOf(CommandKinds) : \A resp \in Responses(r.kind) :
       (CommandDone(r, resp) /\ resp.kind = "json" /\ r.kind \in RepollKinds)
         => \E q \in Issued : q.kind = "status"]_vars

\* C7 amended: a successful power, volume, mute or input command issues
\* exactly one status poll when isConnected still holds at its completion and
\* none when it does not; a successful remote-key or app-launch command and
\* a failed command issue nothing; a status response with volume v shows v%.
C7_RepollWhileConnected ==
  [][/\ \A r \in SettledOf(CommandKinds) : \A resp \in Responses(r.kind) :
          CommandDone(r, resp) =>
            IF resp.kind = "json" /\ r.kind \in RepollKinds /\ isConnected
              THEN /\ Cardinality(Issued) = 1
                   /\ \A q \in Issued : q.kind = "status"
              ELSE NothingIssued
     /\ \A r \in SettledOf({"status"}) : \A resp \in Responses("status") :
          (StatusDone(r, resp) /\ resp.kind = "json")
            => ShowsVolume(resp.body)]_vars

\* C7 witness: a volume command has succeeded and its status poll, the
\* request issued last, is pending.
C7_Witness ==
  /\ toast = "Done: volume"
  /\ isConnected
  /\ Request(nextId - 1, "status") \in inflight

\* The control-plane reads and the static assets among the fetched requests.
ControlPlaneReads ==
  {Get(<<"health">>), Get(<<"tv", "info">>), Get(<<"tv", "apps">>)}

StaticAssets ==
  {Get(<<"index.html">>), Get(<<"icon-192.png">>), Get(<<"tv">>)}

\* Some cache holds an entry for exactly this request.
HasCached(req) ==
  \E i \in 1..Len(cacheStore) : req \in DOMAIN cacheStore[i].entries

CachedPayloads(req) ==
  {cacheStore[i].entries[req] :
     i \in {j \in 1..Len(cacheStore) : req \in DOMAIN cacheStore[j].entries}}

\* The step responds to this lookup.
Completed(l) == l \in lookups /\ \A m \in lookups' : m.slot # l.slot

\* The step moves this lookup on to its network fetch.
GoesToNetwork(l) ==
  /\ delivered' = delivered
  /\ \E m \in lookups' : m.slot = l.slot /\ m.pc = "net" /\ m.net = l.net + 1

C9_CacheOrOneFetch ==
  [][\A l \in lookups : l.req \in StaticAssets =>
       /\ l.pc \in {"match", "net"}
       /\ l.pc = "match" => l.net = 0
       /\ l.pc = "net" => l.net = 1
       /\ (l \notin lookups' /\ l.pc = "match") =>
            IF HasCached(l.req)
              THEN /\ Completed(l)
                   /\ delivered'.req = l.req
                   /\ delivered'.from = "cache"
                   /\ delivered'.payload \in CachedPayloads(l.req)
                   /\ delivered'.net = 0
              ELSE GoesToNetwork(l)
       /\ (l \notin lookups' /\ l.pc = "net") =>
            /\ Completed(l)
            /\ delivered'.req = l.req
            /\ delivered'.from \in {"network", "error"}
            /\ delivered'.net = 1]_vars

\* C9 witness: a precached asset was served from the cache.
C9_Witness ==
  /\ delivered # NoResponse
  /\ delivered.req = Get(<<"index.html">>)
  /\ delivered.from = "cache"
  /\ delivered.net = 0
  /\ swPhase = "activated"

\* C10: no cache, under any name, holds an entry for a command request.
C10_NoCommandCached ==
  \A i \in 1..Len(cacheStore) :
    \A k \in DOMAIN cacheStore[i].entries :
      k.method # "POST" /\ k \notin CommandRequests

\* C10 witness: a command request went through the fetch listener and was
\* answered by the network, after install and activate.
C10_Witness ==
  /\ delivered # NoResponse
  /\ delivered.req = Post(<<"tv", "power">>)
  /\ delivered.from = "network"
  /\ delivered.payload = "new"
  /\ swPhase = "activated"
  /\ cacheStore # <<>>

\* C11: the health probe yields Connected exactly when GET /health answers
\* with a 2xx status, whatever the body (empty, not JSON, a falsy JSON value);
\* any other status, and no response at all, yield a probe failure.
C11_ConnectedIffTwoXX ==
  [][\A r \in SettledOf({"probe"}) : \A resp \in Responses("probe") :
       ProbeDone(r, resp) =>
         (ConnectionState' = "Connected"
            <=> resp.kind \in {"nonjson", "falsy", "json"})]_vars

\* C12: while Connected, a status poll or an apps-list fetch that fails is
\* issued again, the other request left alone, and the connection state stays
\* Connected.
C12_FailedFetchRetried ==
  [][\A r \in SettledOf({"status", "apps"}) : \A resp \in TransportFailures :
       (/\ ConnectionState = "Connected"
        /\ \/ r.kind = "status" /\ StatusDone(r, resp)
           \/ r.kind = "apps" /\ AppsDone(r, resp)) =>
         /\ ConnectionState' = "Connected"
         /\ Cardinality(Issued) = 1
         /\ \A q \in Issued : q.kind = r.kind]_vars

\* The keys the cache of this name holds.
Stored(store, name) ==
  UNION {DOMAIN store[i].entries :
           i \in {j \in 1..Len(store) : store[j].name = name}}

\* C13: when a static-asset lookup missed the cache and its network fetch
\* succeeded, the response is in the cache once the lookup has answered, so
\* that a later lookup of the same key is served from the cache.
C13_StaticMissPopulates ==
  [][\A l \in lookups :
       (l.req \in StaticAssets /\ l.pc = "net" /\ NetDone(l, "ok")) =>
         /\ delivered'.from = "network"
         /\ \E i \in 1..Len(cacheStore') :
              l.req \in DOMAIN cacheStore'[i].entries]_vars

\* C14: once the activate listener has completed, the only cache is the one
\* named CACHE_NAME; a cache disappears only during activate, it is never the
\* current one, and by then install has stored every URL of urlsToCache; an
\* install that fails leaves every cache as it was.
C14_OnlyCurrentCacheAfterActivate ==
  [][/\ swPhase' = "activated" => CacheNames(cacheStore') = {CACHE_NAME}
     /\ \A n \in CacheNames(cacheStore) \ CacheNames(cacheStore') :
          /\ swPhase = "activating"
          /\ n # CACHE_NAME
          /\ urlsToCache \subseteq Stored(cacheStore, CACHE_NAME)
     /\ (swPhase = "installing" /\ swPhase' = "redundant") =>
          cacheStore' = cacheStore]_vars

\* C14 witness: activate has completed with the current cache, holding every
\* precached URL, as the only cache, after the old cache had served an entry.
C14_Witness ==
  /\ swPhase = "activated"
  /\ CacheNames(cacheStore) = {CACHE_NAME}
  /\ urlsToCache \subseteq Stored(cacheStore, CACHE_NAME)
  /\ delivered # NoResponse
  /\ delivered.from = "cache"
  /\ delivered.payload = "old"

\* C15: while the new generation is installed or activated next to the old
\* one, a static-asset lookup answers what the old cache alone would: the old
\* payload for a key the old cache holds, and nothing from the new cache for
\* a key it lacks (the lookup goes to the network).
C15_OldGenerationOnly ==
  [][\A l \in lookups :
       (/\ l.req \in StaticAssets /\ l.pc = "match" /\ MatchDone(l)
        /\ swPhase \in {"installing", "installed", "activating"}
        /\ OLD_CACHE_NAME \in CacheNames(cacheStore)) =>
         IF l.req \in Stored(cacheStore, OLD_CACHE_NAME)
           THEN delivered' = Response(l, "cache", "old")
           ELSE GoesToNetwork(l)]_vars

\* C16: tvInfo changes only in the step that completes a GET /tv/info with a
\* JSON body, and it is then that body as a whole; a status request that
\* completes otherwise, and every other step, leave it as it was.
C16_SnapshotReplacedWhole ==
  [][/\ \A r \in SettledOf({"status"}) : \A resp \in Responses("status") :
          StatusDone(r, resp) =>
            tvInfo' = IF resp.kind = "json" THEN resp.body ELSE tvInfo
     /\ tvInfo' # tvInfo =>
          \E r \in SettledOf({"status"}) : \E resp \in Responses("status") :
            resp.kind = "json" /\ StatusDone(r, resp)]_vars

\* C16 witness: a snapshot without a volume has replaced one with volume 45,
\* which the volume display still shows.
C16_Witness ==
  /\ tvInfo = [muted |-> FALSE]
  /\ volumeValue = VolumeValueText([volume |-> 45, muted |-> TRUE], "")

\* C17: in the step that makes the connection state Disconnected the
\* snapshot is discarded.
C17_DisconnectDiscardsSnapshot ==
  [][(ConnectionState' = "Disconnected" /\ ConnectionState # "Disconnected")
       => tvInfo' = Null]_vars

\* C18: a status response is applied when it arrives, with no guard: of two
\* polls in flight either can complete next, the other staying in flight, and
\* the status held is the body of the one that completes, also when a poll
\* issued later has completed before it.
C18_ArrivalOrderWins ==
  /\ [](\A r \in inflight : \A resp \in Responses("status") :
          r.kind = "status" => ENABLED StatusDone(r, resp))
  /\ [][\A r \in SettledOf({"status"}) : \A resp \in Responses("status") :
          (resp.kind = "json" /\ StatusDone(r, resp)) =>
            /\ tvInfo' = resp.body
            /\ volumeStatus' = VolumeStatusText(resp.body)
            /\ muteStatus' = MuteStatusText(resp.body)
            /\ inflight' = inflight \ {r}]_vars

\* C18 witness: the first status poll ever issued is still in flight and the
\* response of a poll issued after it has been applied.
C18_Witness ==
  /\ Request(2, "status") \in inflight
  /\ tvInfo # Null

\* C19: the document becoming visible, refreshStatus and refreshAllData issue
\* exactly one GET /tv/info and nothing else when the connection state is
\* Connected, and no request at all when it is not; the connection state is
\* left as it was.
C19_RefreshOnlyWhenConnected ==
  [][(RefreshStatus \/ RefreshAllData \/ VisibilityChange(FALSE)) =>
       /\ ConnectionState' = ConnectionState
       /\ IF ConnectionState = "Connected"
            THEN /\ Cardinality(Issued) = 1
                 /\ \A q \in Issued : q.kind = "status"
            ELSE NothingIssued]_vars

\* C20: isConnected is written only by the completion of a probe, true when
\* the probe succeeded and false when it failed, whatever probes are still in
\* flight; every other step leaves it as it was.
C20_FlagWrittenByProbeOnly ==
  [][/\ \A r \in SettledOf({"probe"}) : \A resp \in Responses("probe") :
          ProbeDone(r, resp) => isConnected' = (resp.kind = "json")
     /\ isConnected' # isConnected =>
          \E r \in SettledOf({"probe"}) : \E resp \in Responses("probe") :
            ProbeDone(r, resp)]_vars

\* C20 witness: of two probes in flight together the first has succeeded
\* (its status poll was issued after the second probe) and the second is
\* still to complete.
C20_Witness ==
  /\ isConnected
  /\ Request(2, "probe") \in inflight
  /\ Request(3, "status") \in inflight

\* C21: in every reachable state, if the indicator shows connected (the text
\* 'Connected' and the dot's connected class) then isConnected is true, and a
\* command invoked in that state is accepted, not rejected as not connected.
C21_IndicatorImpliesFlag ==
  (statusText = "Connected" /\ statusDot) =>
    /\ isConnected
    /\ CommandAccepted(isConnected)

\* C21 witness: the indicator shows connected with the flag true while a
\* second probe and a command are in flight.
C21_Witness ==
  /\ statusText = "Connected" /\ statusDot /\ isConnected
  /\ Request(2, "probe") \in inflight
  /\ \E r \in inflight : r.kind \in CommandKinds
====
